---- MODULE Spec2Model ----
(***************************************************************************)
(* Model of mlcube_singularity/singularity_client.py: the Singularity      *)
(* runtime client (version parsing, discovery, build, run, image_spec) and *)
(* the DockerHubClient (image manifest lookup).                            *)
(*                                                                         *)
(* Python strings are sequences of one-character strings, so that prefix   *)
(* tests, splitting and stripping are computed and not assumed.  An        *)
(* optional value is <<>> (None) or <<x>>.                                 *)
(***************************************************************************)
EXTENDS Integers, Sequences, FiniteSets, TLC

\* ------------------------------------------------------------------ bounds

\* How many calls of one operation (build, run, get_image_manifest) a run makes.
MaxCalls == 2

\* ----------------------------------------------------------------- strings

None == <<>>
Some(x) == <<x>>

Digits == {"0", "1", "2", "3", "4", "5", "6", "7", "8", "9"}
Letters ==
    {"a", "b", "c", "d", "e", "f", "g", "h", "i", "j", "k", "l", "m",
     "n", "o", "p", "q", "r", "s", "t", "u", "v", "w", "x", "y", "z",
     "A", "B", "C", "D", "E", "F", "G", "H", "I", "J", "K", "L", "M",
     "N", "O", "P", "Q", "R", "S", "T", "U", "V", "W", "X", "Y", "Z"}
Whitespace == {" ", "\n", "\t"}

\* str.startswith
StartsWith(s, p) == Len(s) >= Len(p) /\ SubSeq(s, 1, Len(p)) = p

\* s[n:]
Drop(s, n) == IF n >= Len(s) THEN <<>> ELSE SubSeq(s, n + 1, Len(s))

RECURSIVE LStrip(_)
LStrip(s) == IF s # <<>> /\ Head(s) \in Whitespace THEN LStrip(Tail(s)) ELSE s

RECURSIVE RStrip(_)
RStrip(s) ==
    IF s # <<>> /\ s[Len(s)] \in Whitespace
    THEN RStrip(SubSeq(s, 1, Len(s) - 1))
    ELSE s

\* str.strip
Strip(s) == RStrip(LStrip(s))

\* the least index of c in s, 0 when c is not in s (str.find + 1)
IndexOf(s, c) ==
    IF \E i \in 1..Len(s) : s[i] = c
    THEN CHOOSE i \in 1..Len(s) : s[i] = c /\ \A j \in 1..(i - 1) : s[j] # c
    ELSE 0

\* Mutant: every occurrence is replaced, not the first alone.
ReplaceEvery(s, c, d) == [i \in 1..Len(s) |-> IF s[i] = c THEN d ELSE s[i]]

\* str.replace(c, d, 1)
ReplaceFirst(s, c, d) ==
    LET i == IndexOf(s, c)
    IN  IF i = 0 THEN s ELSE [s EXCEPT ![i] = d]

\* str.split(c): the fields between the occurrences of c, empty fields kept
RECURSIVE Split(_, _)
Split(s, c) ==
    LET i == IndexOf(s, c)
    IN  IF i = 0
        THEN <<s>>
        ELSE <<SubSeq(s, 1, i - 1)>> \o Split(Drop(s, i), c)

\* " ".join(fields) and friends
RECURSIVE Join(_, _)
Join(fields, sep) ==
    IF fields = <<>> THEN <<>>
    ELSE IF Len(fields) = 1 THEN fields[1]
    ELSE fields[1] \o sep \o Join(Tail(fields), sep)

RECURSIVE SelectNonEmpty(_)
SelectNonEmpty(fields) ==
    IF fields = <<>> THEN <<>>
    ELSE IF Strip(Head(fields)) = <<>> THEN SelectNonEmpty(Tail(fields))
    ELSE <<Strip(Head(fields))>> \o SelectNonEmpty(Tail(fields))

\* --------------------------------------------------------------- literals

S_singularity == <<"s", "i", "n", "g", "u", "l", "a", "r", "i", "t", "y">>
S_apptainer == <<"a", "p", "p", "t", "a", "i", "n", "e", "r">>
S_sudo == <<"s", "u", "d", "o">>
S_version == <<"v", "e", "r", "s", "i", "o", "n">>
S_docker == <<"d", "o", "c", "k", "e", "r">>
S_archive == <<"a", "r", "c", "h", "i", "v", "e">>
SP == <<" ">>

\* "singularity version ", "singularity-ce version ", "apptainer version "
SingularityBanner == S_singularity \o SP \o S_version \o SP
SingularityCeBanner == S_singularity \o <<"-", "c", "e">> \o SP \o S_version \o SP
ApptainerBanner == S_apptainer \o SP \o S_version \o SP

\* "docker://", "docker-archive:", "docker:"
DockerScheme == S_docker \o <<":", "/", "/">>
DockerArchiveScheme == S_docker \o <<"-">> \o S_archive \o <<":">>
DockerColon == S_docker \o <<":">>

\* "--version", "build", "exec", "run", "sif", "header", "cd", ";"
S_dashversion == <<"-", "-">> \o S_version
S_build == <<"b", "u", "i", "l", "d">>
S_exec == <<"e", "x", "e", "c">>
S_run == <<"r", "u", "n">>
S_sif == <<"s", "i", "f">>
S_header == <<"h", "e", "a", "d", "e", "r">>
S_cd == <<"c", "d">>
S_semicolon == <<";">>

\* ------------------------------------------------------ semantic versions

AlnumHyphen == Digits \cup Letters \cup {"-"}

AllIn(s, chars) == \A i \in 1..Len(s) : s[i] \in chars

\* 0|[1-9]\d*
IsNumericId(s) ==
    /\ s # <<>>
    /\ AllIn(s, Digits)
    /\ (Len(s) > 1 => s[1] # "0")

\* 0|[1-9]\d*|\d*[a-zA-Z-][0-9a-zA-Z-]*
IsPrereleaseId(s) ==
    /\ s # <<>>
    /\ AllIn(s, AlnumHyphen)
    /\ (AllIn(s, Digits) => IsNumericId(s))

\* [0-9a-zA-Z-]+
IsBuildId(s) == s # <<>> /\ AllIn(s, AlnumHyphen)

DigitVal(c) ==
    CASE c = "0" -> 0 [] c = "1" -> 1 [] c = "2" -> 2 [] c = "3" -> 3
      [] c = "4" -> 4 [] c = "5" -> 5 [] c = "6" -> 6 [] c = "7" -> 7
      [] c = "8" -> 8 [] c = "9" -> 9

RECURSIVE NumVal(_)
NumVal(s) ==
    IF s = <<>> THEN 0
    ELSE 10 * NumVal(SubSeq(s, 1, Len(s) - 1)) + DigitVal(s[Len(s)])

\* semver.VersionInfo.parse: None when the text is no semantic version
\* (the library raises ValueError), else the parsed version.
SemverParse(text) ==
    LET plus == IndexOf(text, "+")
        main == IF plus = 0 THEN text ELSE SubSeq(text, 1, plus - 1)
        build == IF plus = 0 THEN None ELSE Some(Drop(text, plus))
        dash == IndexOf(main, "-")
        core == IF dash = 0 THEN main ELSE SubSeq(main, 1, dash - 1)
        pre == IF dash = 0 THEN None ELSE Some(Drop(main, dash))
        nums == Split(core, ".")
        valid ==
            /\ Len(nums) = 3
            /\ \A i \in 1..Len(nums) : IsNumericId(nums[i])
            /\ (pre # None =>
                  LET ids == Split(pre[1], ".")
                  IN  \A i \in 1..Len(ids) : IsPrereleaseId(ids[i]))
            /\ (build # None =>
                  LET ids == Split(build[1], ".")
                  IN  \A i \in 1..Len(ids) : IsBuildId(ids[i]))
    IN  IF valid
        THEN Some([major |-> NumVal(nums[1]), minor |-> NumVal(nums[2]),
                   patch |-> NumVal(nums[3]), prerelease |-> pre,
                   build |-> build])
        ELSE None

\* ------------------------------------------------------------- exceptions

\* An exception in flight: its class, the function that raised it and the
\* command vector (or list of candidates) it carries.
Exception(type, function, detail) ==
    [type |-> type, function |-> function, detail |-> detail]

\* ---------------------------------------------------------------- Version

\* Mutant: the banners are cut one character too far (21, 24 and 19).
RuntimeAndTextCutsTooFar(version_string) ==
    LET s == Strip(version_string)
    IN  IF StartsWith(s, SingularityBanner)
        THEN [runtime |-> "SINGULARITY", text |-> Strip(Drop(s, 21))]
        ELSE IF StartsWith(s, SingularityCeBanner)
        THEN [runtime |-> "SINGULARITY", text |-> Strip(Drop(s, 24))]
        ELSE IF StartsWith(s, ApptainerBanner)
        THEN [runtime |-> "APPTAINER", text |-> Strip(Drop(s, 19))]
        ELSE IF IndexOf(s, "/") # 0
        THEN [runtime |-> "SINGULARITY", text |-> ReplaceFirst(s, "/", "+")]
        ELSE [runtime |-> "UNKNOWN", text |-> s]

\* Version.from_version_string, up to the call of the semver parser: the
\* runtime and the text handed to semver.VersionInfo.parse.
RuntimeAndText(version_string) ==
    LET s == Strip(version_string)
    IN  IF StartsWith(s, SingularityBanner)
        THEN [runtime |-> "SINGULARITY", text |-> Strip(Drop(s, 20))]
        ELSE IF StartsWith(s, SingularityCeBanner)
        THEN [runtime |-> "SINGULARITY", text |-> Strip(Drop(s, 23))]
        ELSE IF StartsWith(s, ApptainerBanner)
        THEN [runtime |-> "APPTAINER", text |-> Strip(Drop(s, 18))]
        ELSE IF IndexOf(s, "/") # 0
        THEN [runtime |-> "SINGULARITY", text |-> ReplaceFirst(s, "/", "+")]
        ELSE [runtime |-> "UNKNOWN", text |-> s]

\* Version.from_version_string: the Version, or the ValueError of the parser.
from_version_string(version_string) ==
    LET rt == RuntimeAndText(version_string)
        sv == SemverParse(rt.text)
    IN  IF sv = None
        THEN [exc |-> Some(Exception("ValueError", "VersionInfo.parse", <<rt.text>>)),
              value |-> None]
        ELSE [exc |-> None,
              value |-> Some([runtime |-> rt.runtime, version |-> sv[1]])]

\* ------------------------------------------------------------------ Shell

\* What the operating system answers to one launched command: whether the
\* binary could be launched, its exit code and its captured output.
Response(launched, exit_code, output) ==
    [launched |-> launched, exit_code |-> exit_code, output |-> output]

\* Shell.run_and_capture_output: (exit_code, output), or ExecutionError when
\* the command cannot be launched.
run_and_capture_output(cmd, resp) ==
    IF resp.launched
    THEN [exc |-> None, exit_code |-> resp.exit_code, output |-> resp.output]
    ELSE [exc |-> Some(Exception("ExecutionError", "Shell.run_and_capture_output", cmd)),
          exit_code |-> resp.exit_code, output |-> <<>>]

\* Shell.run: returns on exit code 0, raises ExecutionError carrying the
\* command on a non-zero exit code or a launch failure.
ShellRun(cmd, resp) ==
    IF resp.launched /\ resp.exit_code = 0
    THEN None
    ELSE Some(Exception("ExecutionError", "Shell.run", cmd))

\* ----------------------------------------------------------------- Client

\* Mutant: init asks for the version on every call, and keeps the version
\* it has when the call is not forced.
ClientInitAlwaysAsks(self, force, resp) ==
    LET cleared == IF force THEN [self EXCEPT !.version = None] ELSE self
        version_cmd == self.singularity \o <<S_dashversion>>
        ran == run_and_capture_output(version_cmd, resp)
        parsed == from_version_string(ran.output)
    IN  IF cleared.version # None
        THEN [client |-> cleared, exc |-> None, cmds |-> <<version_cmd>>]
        ELSE IF ran.exc # None
        THEN [client |-> cleared, exc |-> ran.exc, cmds |-> <<version_cmd>>]
        ELSE IF ran.exit_code # 0
        THEN [client |-> cleared,
              exc |-> Some(Exception("ExecutionError", "Client.init", version_cmd)),
              cmds |-> <<version_cmd>>]
        ELSE IF parsed.exc # None
        THEN [client |-> cleared, exc |-> parsed.exc, cmds |-> <<version_cmd>>]
        ELSE [client |-> [cleared EXCEPT !.version = parsed.value],
              exc |-> None, cmds |-> <<version_cmd>>]

\* Mutant: a forced init that fails keeps the version the client had.
ClientInitKeepsVersionOnFailure(self, force, resp) ==
    LET cleared == IF force THEN [self EXCEPT !.version = None] ELSE self
        version_cmd == self.singularity \o <<S_dashversion>>
        ran == run_and_capture_output(version_cmd, resp)
        parsed == from_version_string(ran.output)
    IN  IF cleared.version # None
        THEN [client |-> cleared, exc |-> None, cmds |-> <<>>]
        ELSE IF ran.exc # None
        THEN [client |-> self, exc |-> ran.exc, cmds |-> <<version_cmd>>]
        ELSE IF ran.exit_code # 0
        THEN [client |-> self,
              exc |-> Some(Exception("ExecutionError", "Client.init", version_cmd)),
              cmds |-> <<version_cmd>>]
        ELSE IF parsed.exc # None
        THEN [client |-> self, exc |-> parsed.exc, cmds |-> <<version_cmd>>]
        ELSE [client |-> [cleared EXCEPT !.version = parsed.value],
              exc |-> None, cmds |-> <<version_cmd>>]

\* Client.init: the client after the call, the exception raised (if any) and
\* the commands handed to the shell.
ClientInit(self, force, resp) ==
    LET cleared == IF force THEN [self EXCEPT !.version = None] ELSE self
        version_cmd == self.singularity \o <<S_dashversion>>
        ran == run_and_capture_output(version_cmd, resp)
        parsed == from_version_string(ran.output)
    IN  IF cleared.version # None
        THEN [client |-> cleared, exc |-> None, cmds |-> <<>>]
        ELSE IF ran.exc # None
        THEN [client |-> cleared, exc |-> ran.exc, cmds |-> <<version_cmd>>]
        ELSE IF ran.exit_code # 0
        THEN [client |-> cleared,
              exc |-> Some(Exception("ExecutionError", "Client.init", version_cmd)),
              cmds |-> <<version_cmd>>]
        ELSE IF parsed.exc # None
        THEN [client |-> cleared, exc |-> parsed.exc, cmds |-> <<version_cmd>>]
        ELSE [client |-> [cleared EXCEPT !.version = parsed.value],
              exc |-> None, cmds |-> <<version_cmd>>]

\* Client.__init__ with a string: split on single spaces, strip the tokens,
\* drop the empty ones, then init().
ClientNew(singularity, version, resp) ==
    ClientInit([singularity |-> SelectNonEmpty(Split(singularity, " ")),
                version |-> version], FALSE, resp)

\* -------------------------------------------------------------- variables

VARIABLES
    scenario,   \* the operation this run exercises
    settings,   \* SystemSettings: None, or the executable configured for the "singularity" platform
    tried,      \* from_env: how many candidates the loop has consumed
    discovery,  \* from_env: [state, attempts, client, exc]
    client,     \* the client that build, run and image_spec are called on
    fs,         \* the filesystem: [files, dirs], sets of paths
    calls,      \* the calls made so far, in order, each with its progress and outcome
    shellLog,   \* every command handed to Shell, in order
    httpLog     \* every HTTP request issued, in order

vars == <<scenario, settings, tried, discovery, client, fs, calls, shellLog, httpLog>>

\* ------------------------------------------------------- client discovery

S_custom == <<"/", "o", "/", "s">>

\* The settings files a run may start from: no singularity platform entry, a
\* configured path, or a configured command that repeats a default one.
SettingsChoices == {None, Some(S_custom), Some(SP \o S_apptainer)}

\* The fixed candidates of Client.from_env.
DefaultExecutables ==
    <<S_singularity, S_sudo \o SP \o S_singularity,
      S_apptainer, S_sudo \o SP \o S_apptainer>>

\* Mutant: the configured executable is tried last instead of first.
ExecutablesConfiguredLast(platforms) ==
    IF platforms # None
    THEN DefaultExecutables \o <<platforms[1]>>
    ELSE DefaultExecutables

\* The candidate list of Client.from_env.
Executables(platforms) ==
    IF platforms # None
    THEN <<platforms[1]>> \o DefaultExecutables
    ELSE DefaultExecutables

S_374 == <<"3", ".", "7", ".", "4">>
S_110 == <<"1", ".", "1", ".", "0">>
S_37 == <<"3", ".", "7">>

\* What `<exe> --version` may answer: no such binary, a non-zero exit code,
\* a Singularity banner, an Apptainer banner, output that is no version.
VersionResponses ==
    {Response(FALSE, 127, <<>>),
     Response(TRUE, 1, <<>>),
     Response(TRUE, 0, SingularityBanner \o S_374 \o <<"\n">>),
     Response(TRUE, 0, ApptainerBanner \o S_110),
     Response(TRUE, 0, S_37)}

\* `except ExecutionError` of Client.from_env
FromEnvCatches(exc) == exc.type = "ExecutionError"

\* One iteration of the loop of Client.from_env over candidate number
\* n (1-based), and the final raise when the loop runs out of candidates.
FromEnvIteration(d, executables, n, made) ==
    LET attempt == [executable |-> executables[n], exc |-> made.exc]
        attempts == Append(d.attempts, attempt)
    IN  IF made.exc = None
        THEN [state |-> "returned", attempts |-> attempts,
              client |-> Some(made.client), exc |-> None]
        ELSE IF ~FromEnvCatches(made.exc[1])
        THEN [state |-> "raised", attempts |-> attempts,
              client |-> None, exc |-> made.exc]
        ELSE IF n < Len(executables)
        THEN [state |-> "running", attempts |-> attempts,
              client |-> None, exc |-> None]
        ELSE [state |-> "raised", attempts |-> attempts, client |-> None,
              exc |-> Some(Exception("ExecutionError", "Client.from_env", executables))]

\* Client.from_env, one candidate per step: construct a Client with the next
\* candidate (which runs `<candidate> --version`), return it, go on to the
\* next candidate, or raise.
from_env ==
    /\ scenario = "from_env"
    /\ discovery.state = "running"
    /\ \E resp \in VersionResponses :
         LET executables == Executables(settings)
             made == ClientNew(executables[tried + 1], None, resp)
         IN  /\ discovery' = FromEnvIteration(discovery, executables, tried + 1, made)
             /\ shellLog' = shellLog \o made.cmds
    /\ tried' = tried + 1
    /\ UNCHANGED <<scenario, settings, client, fs, calls, httpLog>>

\* ------------------------------------------------------------ filesystem

\* pathlib.Path(a, b) for a relative b
PathJoin(a, b) == a \o <<"/">> \o b

\* The directories above a path, nearest last: Path.parents
Ancestors(path) ==
    LET parts == Split(path, "/")
    IN  {Join(SubSeq(parts, 1, k), <<"/">>) : k \in 1..(Len(parts) - 1)}

\* Path.exists
Exists(filesystem, path) == path \in filesystem.files \cup filesystem.dirs

\* Path.is_file
IsFile(filesystem, path) == path \in filesystem.files

\* Mutant: the directory of the path is not created.
MkdirSkipped(filesystem, path) == filesystem

\* Path.parent.mkdir(parents=True, exist_ok=True)
MkdirParents(filesystem, path) ==
    [filesystem EXCEPT !.dirs = @ \cup Ancestors(path)]

P_b == <<"b">>
P_w == <<"w">>
P_wi == <<"w", "/", "i">>
P_m == <<"m">>
P_r == <<"r">>

\* The filesystems a run may start from: the build directory exists; the
\* recipe b/r and the image w/m each exist or not.
Filesystems ==
    {[files |-> f, dirs |-> {P_b} \cup UNION {Ancestors(x) : x \in f}] :
        f \in SUBSET {PathJoin(P_b, P_r), PathJoin(P_w, P_m)}}

\* An initialized client for each of two executables.
ReadyClients ==
    {ClientNew(S_singularity, None,
               Response(TRUE, 0, SingularityBanner \o S_374)).client,
     ClientNew(S_sudo \o SP \o S_apptainer, None,
               Response(TRUE, 0, ApptainerBanner \o S_110)).client}

\* What the shell may answer to a build, run or exec command: success, a
\* non-zero exit code, no such binary.
RunResponses ==
    {Response(TRUE, 0, <<>>), Response(TRUE, 1, <<>>), Response(FALSE, 127, <<>>)}

\* ----------------------------------------------------------- Client.build

\* The recipes build is called with: a recipe file name, a docker image, a
\* docker archive, and a name that only resembles the docker scheme.
Recipes ==
    {P_r, DockerScheme \o <<"a">>, DockerArchiveScheme \o <<"a">>,
     DockerColon \o <<"/", "a">>}

BuildArgs ==
    {[build_dir |-> P_b, recipe |-> r, image_dir |-> d, image_name |-> P_m,
      build_args |-> <<"-", "f">>] : r \in Recipes, d \in {P_w, P_wi}}

\* image_file = Path(image_dir, image_name)
ImageFile(args) == PathJoin(args.image_dir, args.image_name)

\* Mutant: any recipe starting with "docker:" counts as a docker reference.
IsDockerRecipeLoosePrefix(recipe) ==
    StartsWith(recipe, DockerColon) \/ StartsWith(recipe, DockerArchiveScheme)

\* recipe.startswith("docker://") or recipe.startswith("docker-archive:")
IsDockerRecipe(recipe) ==
    StartsWith(recipe, DockerScheme) \/ StartsWith(recipe, DockerArchiveScheme)

\* The command vector build hands to Shell.run.
BuildCommand(self, args) ==
    <<S_cd, args.build_dir, S_semicolon>> \o self.singularity
        \o <<S_build, args.build_args, ImageFile(args), args.recipe>>

\* The effect of the external build command: on exit code 0 the image file
\* is there.
BuildEffect(filesystem, args, resp) ==
    IF resp.launched /\ resp.exit_code = 0
    THEN [filesystem EXCEPT !.files = @ \cup {ImageFile(args)}]
    ELSE filesystem

\* A call that has not finished.
Active(call) == call.pc \notin {"returned", "raised"}

\* A call record: the operation and its arguments, where the call stands, the
\* exception it raised, the value it returned, the commands it handed to the
\* shell with the shell's answers, the filesystem it started from and the
\* client it was made on.
NewCall(op, args, pc) ==
    [op |-> op, args |-> args, pc |-> pc, exc |-> None, ret |-> None,
     cmds |-> <<>>, resps |-> <<>>, before |-> fs, self |-> client]

\* Mutant: the existence check looks at the image name alone, not at
\* image_dir/image_name.
TargetExistsChecksName(filesystem, args) == Exists(filesystem, args.image_name)

\* Mutant: the existence check is missing.
TargetExistsNever(filesystem, args) == FALSE

\* image_file.exists()
TargetExists(filesystem, args) == Exists(filesystem, ImageFile(args))

\* Mutant: the wrapped error drops the context of the original failure.
WrapWithoutContext(function, err) == Exception("ExecutionError", function, <<>>)

\* ExecutionError.mlcube_configure_error / mlcube_run_error(..., **err.context)
WrapExecutionError(function, err) ==
    Exception("ExecutionError", function, err.detail)

\* The arguments of the concurrent callers: one target, w/m, built from the
\* recipe file or from a docker image.
SameTargetBuildArgs ==
    {args \in BuildArgs :
        args.image_dir = P_w /\ args.recipe \in {P_r, DockerScheme \o <<"a">>}}

\* build, lines 192-198: compute the target; return when it exists. Callers
\* come one after the other, except in the concurrent scenario, where a call
\* may start while others are under way: nothing in build takes a lock.
build_call ==
    /\ scenario \in {"build", "init", "concurrent_build"}
    /\ Len(calls) < MaxCalls
    /\ scenario # "concurrent_build" => \A k \in 1..Len(calls) : ~Active(calls[k])
    /\ \E args \in (IF scenario = "concurrent_build"
                    THEN SameTargetBuildArgs ELSE BuildArgs) :
         calls' = Append(calls,
            NewCall("build", args,
                    IF TargetExists(fs, args) THEN "returned" ELSE "mkdir"))
    /\ UNCHANGED <<scenario, settings, tried, discovery, client, fs, shellLog, httpLog>>

\* build, line 201: create the directory of the target.
build_mkdir(k) ==
    /\ calls[k].op = "build"
    /\ calls[k].pc = "mkdir"
    /\ fs' = MkdirParents(fs, ImageFile(calls[k].args))
    /\ calls' = [calls EXCEPT ![k].pc = "recipe"]
    /\ UNCHANGED <<scenario, settings, tried, discovery, client, shellLog, httpLog>>

\* build, lines 203-223: a recipe that is no docker reference must be a file
\* under build_dir.
build_recipe(k) ==
    /\ calls[k].op = "build"
    /\ calls[k].pc = "recipe"
    /\ LET args == calls[k].args
       IN  calls' =
             IF ~IsDockerRecipe(args.recipe)
                /\ ~Exists(fs, PathJoin(args.build_dir, args.recipe))
             THEN [calls EXCEPT ![k].pc = "raised",
                                ![k].exc = Some(Exception("IOError", "Client.build", <<>>))]
             ELSE [calls EXCEPT ![k].pc = "shell"]
    /\ UNCHANGED <<scenario, settings, tried, discovery, client, fs, shellLog, httpLog>>

\* Mutant: build looks for the target again before it runs the command and
\* returns when another caller has produced it meanwhile.
build_shell_rechecks_target(k) ==
    /\ calls[k].op = "build"
    /\ calls[k].pc = "shell"
    /\ \E resp \in RunResponses :
         LET args == calls[k].args
             cmd == BuildCommand(client, args)
             err == ShellRun(cmd, resp)
         IN  IF TargetExists(fs, args)
             THEN /\ calls' = [calls EXCEPT ![k].pc = "returned"]
                  /\ UNCHANGED <<shellLog, fs>>
             ELSE /\ shellLog' = Append(shellLog, cmd)
                  /\ fs' = BuildEffect(fs, args, resp)
                  /\ calls' =
                       IF err = None
                       THEN [calls EXCEPT ![k].pc = "returned",
                                          ![k].cmds = Append(@, cmd),
                                          ![k].resps = Append(@, resp)]
                       ELSE [calls EXCEPT
                               ![k].pc = "raised",
                               ![k].cmds = Append(@, cmd),
                               ![k].resps = Append(@, resp),
                               ![k].exc = Some(WrapExecutionError(
                                               "mlcube_configure_error", err[1]))]
    /\ UNCHANGED <<scenario, settings, tried, discovery, client, httpLog>>

\* build, lines 224-235: run the build command once; wrap its failure.
build_shell(k) ==
    /\ calls[k].op = "build"
    /\ calls[k].pc = "shell"
    /\ \E resp \in RunResponses :
         LET args == calls[k].args
             cmd == BuildCommand(client, args)
             err == ShellRun(cmd, resp)
         IN  /\ shellLog' = Append(shellLog, cmd)
             /\ fs' = BuildEffect(fs, args, resp)
             /\ calls' =
                  IF err = None
                  THEN [calls EXCEPT ![k].pc = "returned",
                                     ![k].cmds = Append(@, cmd),
                                     ![k].resps = Append(@, resp)]
                  ELSE [calls EXCEPT
                          ![k].pc = "raised",
                          ![k].cmds = Append(@, cmd),
                          ![k].resps = Append(@, resp),
                          ![k].exc = Some(WrapExecutionError(
                                          "mlcube_configure_error", err[1]))]
    /\ UNCHANGED <<scenario, settings, tried, discovery, client, httpLog>>

\* ------------------------------------------------------------- Client.run

RunArgs ==
    {[run_args |-> <<"-", "n">>, volumes |-> <<"-", "B">>,
      image_file |-> PathJoin(P_w, P_m), args |-> a, entrypoint |-> e] :
        a \in {<<>>, <<<<"x">>>>, <<<<"x">>, <<"y">>>>},
        e \in {None, Some(<<>>), Some(<<"e">>)}}

\* Mutant: the test is `if entrypoint is not None:`.
TruthyWhenNotNone(entrypoint) == entrypoint # None

\* `if entrypoint:` - neither None nor the empty string
Truthy(entrypoint) == entrypoint # None /\ entrypoint[1] # <<>>

\* The command vector run hands to Shell.run.
RunCommand(self, args) ==
    IF Truthy(args.entrypoint)
    THEN self.singularity
            \o <<S_exec, args.run_args, args.volumes, args.image_file,
                 args.entrypoint[1], Join(args.args, SP)>>
    ELSE self.singularity
            \o <<S_run, args.run_args, args.volumes, args.image_file,
                 Join(args.args, SP)>>

\* Client.run: hand one exec or run command to the shell; wrap its failure.
run ==
    /\ scenario \in {"run", "init"}
    /\ Len(calls) < MaxCalls
    /\ \A k \in 1..Len(calls) : ~Active(calls[k])
    /\ \E args \in RunArgs, resp \in RunResponses :
         LET cmd == RunCommand(client, args)
             err == ShellRun(cmd, resp)
             call == [NewCall("run", args, "returned") EXCEPT
                        !.cmds = <<cmd>>, !.resps = <<resp>>]
         IN  /\ shellLog' = Append(shellLog, cmd)
             /\ calls' = Append(calls,
                  IF err = None
                  THEN call
                  ELSE [call EXCEPT !.pc = "raised",
                                    !.exc = Some(WrapExecutionError(
                                                 "mlcube_run_error", err[1]))])
    /\ UNCHANGED <<scenario, settings, tried, discovery, client, fs, httpLog>>

\* ------------------------------------------------------ Client.image_spec

\* The URIs image_spec is asked about: a docker image, a docker archive, the
\* path w/m (a file when it exists), the directory b, and a name that only
\* resembles the docker scheme.
Uris ==
    {DockerScheme \o <<"a">>, DockerArchiveScheme \o <<"a">>,
     PathJoin(P_w, P_m), P_b, DockerColon \o <<"/", "a">>}

\* What the shell may answer to `sif header`: exit code 0, a non-zero exit
\* code, no such binary.
SifResponses ==
    {Response(TRUE, 0, <<>>), Response(TRUE, 255, <<>>), Response(FALSE, 127, <<>>)}

\* Client.image_spec: the exception raised, the value returned (None is
\* Python's None) and the commands handed to the shell.
ImageSpecOf(self, filesystem, uri, resp) ==
    LET cmd == self.singularity \o <<S_sif, S_header, uri>>
        ran == run_and_capture_output(cmd, resp)
    IN  IF StartsWith(uri, DockerScheme)
        THEN [exc |-> None, ret |-> Some("DOCKER"), cmds |-> <<>>]
        ELSE IF StartsWith(uri, DockerArchiveScheme)
        THEN [exc |-> None, ret |-> Some("DOCKER_ARCHIVE"), cmds |-> <<>>]
        ELSE IF ~IsFile(filesystem, uri)
        THEN [exc |-> None, ret |-> Some("OTHER"), cmds |-> <<>>]
        ELSE IF ran.exc # None
        THEN [exc |-> ran.exc, ret |-> None, cmds |-> <<cmd>>]
        ELSE IF ran.exit_code = 0
        THEN [exc |-> None, ret |-> Some("SINGULARITY"), cmds |-> <<cmd>>]
        ELSE [exc |-> None, ret |-> None, cmds |-> <<cmd>>]

\* Client.image_spec, one call.
image_spec ==
    /\ scenario = "image_spec"
    /\ Len(calls) < MaxCalls
    /\ \E uri \in Uris, resp \in SifResponses :
         LET r == ImageSpecOf(client, fs, uri, resp)
         IN  /\ shellLog' = shellLog \o r.cmds
             /\ calls' = Append(calls,
                  [NewCall("image_spec", uri,
                           IF r.exc = None THEN "returned" ELSE "raised") EXCEPT
                     !.exc = r.exc, !.ret = r.ret, !.cmds = r.cmds,
                     !.resps = IF r.cmds = <<>> THEN <<>> ELSE <<resp>>])
    /\ UNCHANGED <<scenario, settings, tried, discovery, client, fs, httpLog>>

\* -------------------------------------------------------- DockerHubClient

S_ur == <<"u", "/", "r">>

\* The image names get_image_manifest is called with: docker://u/r:t, u/r:t
\* (the same reference) and u/r (no tag).
ImageNames ==
    {DockerScheme \o S_ur \o <<":", "t">>, S_ur \o <<":", "t">>, S_ur}

RECURSIVE StripLeadingSlashes(_)
StripLeadingSlashes(name) ==
    IF Len(name) > 0 /\ name[1] = "/"
    THEN StripLeadingSlashes(Drop(name, 1))
    ELSE name

\* DockerHubClient.parse_image_name: (user, repository, tag) or ValueError.
parse_image_name(image_name) ==
    LET name == StripLeadingSlashes(
                    IF StartsWith(image_name, DockerColon)
                    THEN Drop(image_name, 7)
                    ELSE image_name)
        name_tag == Split(name, ":")
        user_repository == Split(name_tag[1], "/")
        unsupported ==
            [exc |-> Some(Exception("ValueError", "parse_image_name", <<name>>)),
             value |-> None]
    IN  IF Len(name_tag) # 2
        THEN unsupported
        ELSE IF Len(user_repository) # 2
        THEN unsupported
        ELSE [exc |-> None,
              value |-> Some(<<user_repository[1], user_repository[2], name_tag[2]>>)]

\* What the auth endpoint may answer: 200 with one of two tokens, 200 with a
\* body that has no token, 401, 404.
TokenResponses ==
    {[status |-> 200, token |-> Some("t1")], [status |-> 200, token |-> Some("t2")],
     [status |-> 200, token |-> None],
     [status |-> 401, token |-> None], [status |-> 404, token |-> None]}

\* What the registry may answer to the manifest request: 200 with one of two
\* documents, 401, 404.
ManifestResponses ==
    {[status |-> 200, body |-> "manifest1"], [status |-> 200, body |-> "manifest2"],
     [status |-> 401, body |-> "denied"], [status |-> 404, body |-> "unknown"]}

\* GET https://auth.docker.io/token?service=registry.docker.io&scope=repository:{user}/{repository}:pull
TokenRequest(user, repository) ==
    [endpoint |-> "auth.docker.io/token", user |-> user, repository |-> repository,
     tag |-> None, bearer |-> None]

\* Mutant: the manifest request carries a token kept from an earlier call.
ManifestRequestStaleToken(user, repository, tag, token) ==
    [endpoint |-> "registry-1.docker.io/v2/manifests", user |-> user,
     repository |-> repository, tag |-> Some(tag), bearer |-> Some("t1")]

\* GET https://registry-1.docker.io/v2/{user}/{repository}/manifests/{tag}
\* with Authorization: Bearer {token}
ManifestRequest(user, repository, tag, token) ==
    [endpoint |-> "registry-1.docker.io/v2/manifests", user |-> user,
     repository |-> repository, tag |-> Some(tag), bearer |-> Some(token)]

\* Mutant: the status of the token response is not looked at.
GetTokenIgnoresStatus(user, repository, resp) ==
    [exc |-> None,
     token |-> IF resp.token = None THEN Some("") ELSE resp.token,
     requests |-> <<TokenRequest(user, repository)>>]

\* DockerHubClient.get_token: the token, or ValueError on a status other than
\* 200, or KeyError when the body has no token.
get_token(user, repository, resp) ==
    LET request == TokenRequest(user, repository)
    IN  IF resp.status # 200
        THEN [exc |-> Some(Exception("ValueError", "get_token", <<>>)),
              token |-> None, requests |-> <<request>>]
        ELSE IF resp.token = None
        THEN [exc |-> Some(Exception("KeyError", "get_token", <<>>)),
              token |-> None, requests |-> <<request>>]
        ELSE [exc |-> None, token |-> resp.token, requests |-> <<request>>]

\* DockerHubClient.get_image_manifest: parse the name, get a token, get the
\* manifest.
GetImageManifest(image_name, tokenResp, manifestResp) ==
    LET parsed == parse_image_name(image_name)
        user == parsed.value[1][1]
        repository == parsed.value[1][2]
        tag == parsed.value[1][3]
        got == get_token(user, repository, tokenResp)
        request == ManifestRequest(user, repository, tag, got.token[1])
    IN  IF parsed.exc # None
        THEN [exc |-> parsed.exc, ret |-> None, requests |-> <<>>, resps |-> <<>>]
        ELSE IF got.exc # None
        THEN [exc |-> got.exc, ret |-> None, requests |-> got.requests,
              resps |-> <<tokenResp>>]
        ELSE IF manifestResp.status # 200
        THEN [exc |-> Some(Exception("ValueError", "get_image_manifest", <<>>)),
              ret |-> None, requests |-> got.requests \o <<request>>,
              resps |-> <<tokenResp, manifestResp>>]
        ELSE [exc |-> None, ret |-> Some(manifestResp.body),
              requests |-> got.requests \o <<request>>,
              resps |-> <<tokenResp, manifestResp>>]

\* DockerHubClient.get_image_manifest, one call.
get_image_manifest ==
    /\ scenario = "get_image_manifest"
    /\ Len(calls) < MaxCalls
    /\ \E name \in ImageNames, t \in TokenResponses, m \in ManifestResponses :
         LET r == GetImageManifest(name, t, m)
         IN  /\ httpLog' = httpLog \o r.requests
             /\ calls' = Append(calls,
                  [NewCall("get_image_manifest", name,
                           IF r.exc = None THEN "returned" ELSE "raised") EXCEPT
                     !.exc = r.exc, !.ret = r.ret, !.cmds = r.requests,
                     !.resps = r.resps])
    /\ UNCHANGED <<scenario, settings, tried, discovery, client, fs, shellLog>>

\* ------------------------------------------------ Client.supports_fakeroot

\* The characters of identifiers in ASCII order, for str comparison.
AsciiOrder ==
    <<"-", "0", "1", "2", "3", "4", "5", "6", "7", "8", "9",
      "A", "B", "C", "D", "E", "F", "G", "H", "I", "J", "K", "L", "M",
      "N", "O", "P", "Q", "R", "S", "T", "U", "V", "W", "X", "Y", "Z",
      "a", "b", "c", "d", "e", "f", "g", "h", "i", "j", "k", "l", "m",
      "n", "o", "p", "q", "r", "s", "t", "u", "v", "w", "x", "y", "z">>

Ord(c) == CHOOSE i \in 1..Len(AsciiOrder) : AsciiOrder[i] = c

\* cmp(a, b) on integers: -1, 0 or 1
CmpInt(a, b) == IF a < b THEN -1 ELSE IF a > b THEN 1 ELSE 0

\* cmp(a, b) on strings
RECURSIVE CmpStr(_, _)
CmpStr(a, b) ==
    IF a = <<>> /\ b = <<>> THEN 0
    ELSE IF a = <<>> THEN -1
    ELSE IF b = <<>> THEN 1
    ELSE IF Head(a) # Head(b) THEN CmpInt(Ord(Head(a)), Ord(Head(b)))
    ELSE CmpStr(Tail(a), Tail(b))

\* semver: two identifiers of a pre-release; numeric ones compare as
\* numbers and come before the others.
CmpIdentifier(a, b) ==
    IF AllIn(a, Digits) /\ AllIn(b, Digits) THEN CmpInt(NumVal(a), NumVal(b))
    ELSE IF AllIn(a, Digits) THEN -1
    ELSE IF AllIn(b, Digits) THEN 1
    ELSE CmpStr(a, b)

RECURSIVE CmpIdentifiers(_, _)
CmpIdentifiers(a, b) ==
    IF a = <<>> \/ b = <<>> THEN CmpInt(Len(a), Len(b))
    ELSE IF CmpIdentifier(Head(a), Head(b)) # 0
    THEN CmpIdentifier(Head(a), Head(b))
    ELSE CmpIdentifiers(Tail(a), Tail(b))

\* semver: pre-releases; a version without one comes after any with one.
CmpPrerelease(a, b) ==
    IF a = None /\ b = None THEN 0
    ELSE IF a = None THEN 1
    ELSE IF b = None THEN -1
    ELSE CmpIdentifiers(Split(a[1], "."), Split(b[1], "."))

\* semver.VersionInfo.compare: major, minor, patch, then the pre-release;
\* the build metadata is not compared.
VersionCompare(a, b) ==
    IF a.major # b.major THEN CmpInt(a.major, b.major)
    ELSE IF a.minor # b.minor THEN CmpInt(a.minor, b.minor)
    ELSE IF a.patch # b.patch THEN CmpInt(a.patch, b.patch)
    ELSE CmpPrerelease(a.prerelease, b.prerelease)

\* semver.VersionInfo(major=3, minor=5)
Version35 ==
    [major |-> 3, minor |-> 5, patch |-> 0, prerelease |-> None, build |-> None]

\* Mutant: the comparison with 3.5.0 looks at major.minor.patch only.
SupportsFakerootIgnoresPrerelease(self) ==
    LET v == self.version[1].version
        core == [v EXCEPT !.prerelease = None]
    IN  \/ self.version[1].runtime = "SINGULARITY" /\ VersionCompare(core, Version35) >= 0
        \/ self.version[1].runtime = "APPTAINER"

\* Client.supports_fakeroot
SupportsFakeroot(self) ==
    LET singularity_35 ==
            /\ self.version[1].runtime = "SINGULARITY"
            /\ VersionCompare(self.version[1].version, Version35) >= 0
        apptainer == self.version[1].runtime = "APPTAINER"
    IN  singularity_35 \/ apptainer

S_rc1 == <<"r", "c", "1">>

\* The version texts the clients under test were resolved to: 2.9.9, 3.4.9,
\* 3.5.0-rc1, 3.5.0, 3.5.0+b1, 3.5.1-rc1, 3.6.0, 4.0.0, 0.1.0.
VersionTexts ==
    {<<"2", ".", "9", ".", "9">>, <<"3", ".", "4", ".", "9">>,
     <<"3", ".", "5", ".", "0", "-">> \o S_rc1, <<"3", ".", "5", ".", "0">>,
     <<"3", ".", "5", ".", "0", "+", "b", "1">>,
     <<"3", ".", "5", ".", "1", "-">> \o S_rc1, <<"3", ".", "6", ".", "0">>,
     <<"4", ".", "0", ".", "0">>, <<"0", ".", "1", ".", "0">>}

Runtimes == {"UNKNOWN", "APPTAINER", "SINGULARITY"}

\* Clients constructed with an explicitly supplied Version.
VersionedClients ==
    {ClientNew(S_singularity,
               Some([runtime |-> r, version |-> SemverParse(t)[1]]),
               Response(FALSE, 127, <<>>)).client :
        r \in Runtimes, t \in VersionTexts}

\* Client.supports_fakeroot, one call.
supports_fakeroot ==
    /\ scenario = "supports_fakeroot"
    /\ Len(calls) < MaxCalls
    /\ calls' = Append(calls,
          [NewCall("supports_fakeroot", <<>>, "returned") EXCEPT
             !.ret = Some(SupportsFakeroot(client))])
    /\ UNCHANGED <<scenario, settings, tried, discovery, client, fs, shellLog, httpLog>>

\* --------------------------------------------- Version.from_version_string

S_380pull == <<"3", ".", "8", ".", "0", "-", "p", "u", "l", "l">>

\* The texts that follow a banner, or stand alone: 3.7.4, 1.1.0-rc1,
\* 3.5.0+b1, the legacy 3.8.0-pull/12-0a, 3.8.0-pull/1/2, and 3.7.
BannerlessTexts ==
    {S_374, S_110 \o <<"-">> \o S_rc1, <<"3", ".", "5", ".", "0", "+", "b", "1">>,
     S_380pull \o <<"/", "1", "2", "-", "0", "a">>,
     S_380pull \o <<"/", "1", "/", "2">>, S_37}

\* The raw version strings: optional white space, an optional banner, a
\* text, optional white space.
VersionStrings ==
    {[before |-> b, banner |-> n, text |-> t, after |-> a] :
        b \in {<<>>, SP}, a \in {<<>>, <<"\n">>},
        n \in {<<>>, SingularityBanner, SingularityCeBanner, ApptainerBanner},
        t \in BannerlessTexts}

Raw(input) == input.before \o input.banner \o input.text \o input.after

\* Version.from_version_string applied to one raw string.
parse_version ==
    /\ scenario = "from_version_string"
    /\ calls = <<>>
    /\ \E input \in VersionStrings :
         LET r == from_version_string(Raw(input))
         IN  calls' = Append(calls,
               [NewCall("from_version_string", input,
                        IF r.exc = None THEN "returned" ELSE "raised") EXCEPT
                  !.exc = r.exc, !.ret = r.value])
    /\ UNCHANGED <<scenario, settings, tried, discovery, client, fs, shellLog, httpLog>>

\* ------------------------------------- DockerHubClient.parse_image_name

\* What follows the scheme in the names under test: u/r:t, u/r, a/b/c:t,
\* u/r:t:x, ur:t, u/r: and u/:t.
ReferenceTexts ==
    {S_ur \o <<":", "t">>, S_ur, <<"a", "/", "b", "/", "c", ":", "t">>,
     S_ur \o <<":", "t", ":", "x">>, <<"u", "r", ":", "t">>,
     S_ur \o <<":">>, <<"u", "/", ":", "t">>}

\* The names parse_image_name is called with: a text after nothing,
\* "docker:" or "docker://", and docker:docker:u/r:t, whose second "docker:"
\* is part of what follows the scheme.
ReferenceNames ==
    {[scheme |-> p, rest |-> r] :
        p \in {<<>>, DockerColon, DockerScheme}, r \in ReferenceTexts}
    \cup {[scheme |-> DockerColon, rest |-> DockerColon \o S_ur \o <<":", "t">>]}

\* DockerHubClient.parse_image_name applied to one name.
parse_name ==
    /\ scenario = "parse_image_name"
    /\ calls = <<>>
    /\ \E input \in ReferenceNames :
         LET r == parse_image_name(input.scheme \o input.rest)
         IN  calls' = Append(calls,
               [NewCall("parse_image_name", input,
                        IF r.exc = None THEN "returned" ELSE "raised") EXCEPT
                  !.exc = r.exc, !.ret = r.value])
    /\ UNCHANGED <<scenario, settings, tried, discovery, client, fs, shellLog, httpLog>>

\* ------------------------------------------------------------ Client.init

\* The clients init is called on: resolved through --version, or constructed
\* with an explicitly supplied Version.
LifecycleClients ==
    ReadyClients
    \cup {ClientNew(S_singularity,
                    Some([runtime |-> "SINGULARITY", version |-> SemverParse(S_374)[1]]),
                    Response(FALSE, 127, <<>>)).client}

\* Client.init(force) on the client; build and run may follow on the same
\* object, whatever init left in it.
init ==
    /\ scenario = "init"
    /\ Len(calls) < MaxCalls
    /\ \A k \in 1..Len(calls) : ~Active(calls[k])
    /\ \E force \in BOOLEAN, resp \in VersionResponses :
         LET r == ClientInit(client, force, resp)
         IN  /\ client' = r.client
             /\ shellLog' = shellLog \o r.cmds
             /\ calls' = Append(calls,
                  [NewCall("init", [force |-> force],
                           IF r.exc = None THEN "returned" ELSE "raised") EXCEPT
                     !.exc = r.exc,
                     !.cmds = r.cmds,
                     !.resps = IF r.cmds = <<>> THEN <<>> ELSE <<resp>>])
    /\ UNCHANGED <<scenario, settings, tried, discovery, fs, httpLog>>

\* ---------------------------------------------------------- specification

Scenarios ==
    {"from_env", "build", "run", "image_spec", "get_image_manifest",
     "supports_fakeroot", "from_version_string", "parse_image_name",
     "init", "concurrent_build"}

NoClient == [singularity |-> <<>>, version |-> None]

Init ==
    /\ scenario \in Scenarios
    /\ settings \in (IF scenario = "from_env" THEN SettingsChoices ELSE {None})
    /\ tried = 0
    /\ discovery = [state |-> "running", attempts |-> <<>>, client |-> None, exc |-> None]
    /\ client \in (IF scenario \in {"build", "run", "image_spec", "concurrent_build"}
                   THEN ReadyClients
                   ELSE IF scenario = "supports_fakeroot" THEN VersionedClients
                   ELSE IF scenario = "init" THEN LifecycleClients
                   ELSE {NoClient})
    /\ fs \in (IF scenario \in {"build", "image_spec", "concurrent_build"}
               THEN Filesystems ELSE {[files |-> {}, dirs |-> {}]})
    /\ calls = <<>>
    /\ shellLog = <<>>
    /\ httpLog = <<>>

Next ==
    \/ from_env
    \/ build_call
    \/ \E k \in 1..Len(calls) : build_mkdir(k)
    \/ \E k \in 1..Len(calls) : build_recipe(k)
    \/ \E k \in 1..Len(calls) : build_shell(k)
    \/ run
    \/ image_spec
    \/ get_image_manifest
    \/ supports_fakeroot
    \/ parse_version
    \/ parse_name
    \/ init

Spec == Init /\ [][Next]_vars

\* ------------------------------------------------------- claims: from_env

\* The candidate list the documentation of discovery promises: the configured
\* executable first when there is one, then the four fixed commands.
PromisedCandidates ==
    (IF settings # None THEN <<settings[1]>> ELSE <<>>)
        \o <<S_singularity, S_sudo \o SP \o S_singularity,
             S_apptainer, S_sudo \o SP \o S_apptainer>>

\* C1: discovery attempts the candidates strictly in list order (configured
\* executable first, then singularity, sudo singularity, apptainer, sudo
\* apptainer): the attempted candidates and the `--version` commands issued
\* are a prefix of the list, every candidate attempted before the returned
\* one failed, the returned client is the one of the last attempted candidate,
\* and nothing is attempted after it.
C1_FirstMatchInOrder ==
    LET a == discovery.attempts
    IN  /\ Len(a) <= Len(PromisedCandidates)
        /\ (scenario = "from_env" => Len(shellLog) = Len(a))
        /\ \A i \in 1..Len(a) :
             /\ a[i].executable = PromisedCandidates[i]
             /\ shellLog[i] =
                  SelectNonEmpty(Split(PromisedCandidates[i], " ")) \o <<S_dashversion>>
        /\ \A i \in 1..(Len(a) - 1) : a[i].exc # None
        /\ (discovery.state = "running" => \A i \in 1..Len(a) : a[i].exc # None)
        /\ (discovery.state = "returned" =>
              /\ a # <<>>
              /\ a[Len(a)].exc = None
              /\ discovery.client # None
              /\ discovery.client[1].version # None
              /\ discovery.client[1].singularity =
                   SelectNonEmpty(Split(PromisedCandidates[Len(a)], " ")))

\* C1 witness: a configured executable and two defaults failed, the fourth
\* candidate was returned.
C1_Witness ==
    /\ settings # None
    /\ discovery.state = "returned"
    /\ Len(discovery.attempts) = 4

\* C2: a candidate that fails (cannot be launched, non-zero exit code, or
\* malformed version output) is skipped and discovery goes on: discovery never
\* ends with an error before every candidate has been tried.
C2_FailedCandidateIsSkipped ==
    discovery.state = "raised" => Len(discovery.attempts) = Len(PromisedCandidates)

\* C3: when no candidate succeeds, from_env raises the discovery-failed error
\* listing every candidate, after each candidate was tried exactly once.
C3_AllFailRaisesDiscoveryFailed ==
    discovery.state = "raised" =>
        /\ discovery.exc[1].type = "ExecutionError"
        /\ discovery.exc[1].function = "Client.from_env"
        /\ discovery.exc[1].detail = PromisedCandidates
        /\ Len(discovery.attempts) = Len(PromisedCandidates)
        /\ Len(shellLog) = Len(PromisedCandidates)
        /\ \A i \in 1..Len(PromisedCandidates) :
             discovery.attempts[i].executable = PromisedCandidates[i]

\* ---------------------------------------------------------- claims: build

BuildCalls == {k \in 1..Len(calls) : calls[k].op = "build"}

\* The recipes the documentation exempts from the local file check.
IsPromisedDockerRecipe(recipe) ==
    \/ Len(recipe) >= 9 /\ SubSeq(recipe, 1, 9) = S_docker \o <<":", "/", "/">>
    \/ Len(recipe) >= 15 /\ SubSeq(recipe, 1, 15) = S_docker \o <<"-">> \o S_archive \o <<":">>

\* Two build calls made one after the other for the same target path (the
\* calls of the concurrent scenario may overlap).
Successive(j, k) ==
    /\ scenario # "concurrent_build"
    /\ j \in BuildCalls
    /\ k \in BuildCalls
    /\ k = j + 1
    /\ ImageFile(calls[j].args) = ImageFile(calls[k].args)

\* The filesystem a finished call left behind: what the next call started
\* from, or the present one when it is the last call.
After(k) == IF k < Len(calls) THEN calls[k + 1].before ELSE fs

\* How many commands the first n calls handed to the shell.
RECURSIVE CommandsOfCalls(_)
CommandsOfCalls(n) ==
    IF n = 0 THEN 0 ELSE CommandsOfCalls(n - 1) + Len(calls[n].cmds)

C5_ExistingTargetIsNoOp ==
    \A k \in BuildCalls :
        Exists(calls[k].before, ImageFile(calls[k].args)) =>
            /\ calls[k].pc = "returned"
            /\ calls[k].exc = None
            /\ calls[k].cmds = <<>>
            /\ After(k) = calls[k].before
            /\ Len(shellLog) = CommandsOfCalls(Len(calls))

\* C5 witness: the target exists and the recipe file is missing; the call
\* has returned.
C5_Witness ==
    \E k \in BuildCalls :
        /\ Exists(calls[k].before, ImageFile(calls[k].args))
        /\ ~IsDockerRecipe(calls[k].args.recipe)
        /\ ~Exists(calls[k].before, PathJoin(calls[k].args.build_dir, calls[k].args.recipe))
        /\ calls[k].pc = "returned"
C7_NoRetryAndWrappedFailure ==
    /\ scenario \in {"build", "run"} => Len(shellLog) = CommandsOfCalls(Len(calls))
    /\ \A k \in 1..Len(calls) :
         calls[k].op \in {"build", "run"} =>
            /\ Len(calls[k].cmds) <= 1
            /\ Len(calls[k].resps) = Len(calls[k].cmds)
            /\ (calls[k].op = "run" => Len(calls[k].cmds) = 1)
            /\ (calls[k].cmds # <<>> =>
                  LET ok == calls[k].resps[1].launched /\ calls[k].resps[1].exit_code = 0
                  IN  IF ok
                      THEN calls[k].pc = "returned" /\ calls[k].exc = None
                      ELSE /\ calls[k].pc = "raised"
                           /\ calls[k].exc # None
                           /\ calls[k].exc[1].type = "ExecutionError"
                           /\ calls[k].exc[1].function =
                                (IF calls[k].op = "build"
                                 THEN "mlcube_configure_error"
                                 ELSE "mlcube_run_error")
                           /\ calls[k].exc[1].detail = calls[k].cmds[1])

\* C7 witness: a run call whose command exited non-zero has raised, and the
\* run call after it has handed its own single command to the shell.
C7_Witness ==
    /\ Len(calls) = 2
    /\ calls[1].op = "run"
    /\ calls[1].pc = "raised"
    /\ calls[1].resps[1].launched
    /\ calls[1].resps[1].exit_code # 0
    /\ Len(shellLog) = 2
\* ------------------------------------------------------- claims: registry

ManifestCalls == {k \in 1..Len(calls) : calls[k].op = "get_image_manifest"}

IsTokenRequest(request) == request.endpoint = "auth.docker.io/token"

IsManifestRequest(request) == request.endpoint = "registry-1.docker.io/v2/manifests"

\* C8: in get_image_manifest the token request comes before the manifest
\* request, and when the token endpoint answers with a status other than 200
\* the call fails with the token error of get_token and no manifest request
\* is issued.
C8_TokenFailureStopsBeforeManifest ==
    /\ scenario = "get_image_manifest" => Len(httpLog) = CommandsOfCalls(Len(calls))
    /\ \A k \in ManifestCalls :
         LET requests == calls[k].cmds
         IN  /\ \A i \in 1..Len(requests) :
                  IsManifestRequest(requests[i]) =>
                     /\ i > 1
                     /\ IsTokenRequest(requests[1])
                     /\ calls[k].resps[1].status = 200
             /\ (requests # <<>> /\ calls[k].resps[1].status # 200 =>
                   /\ calls[k].pc = "raised"
                   /\ calls[k].exc[1].type = "ValueError"
                   /\ calls[k].exc[1].function = "get_token"
                   /\ Len(requests) = 1
                   /\ IsTokenRequest(requests[1]))

\* C8 witness: the token endpoint answered 401 and the call has raised.
C8_Witness ==
    \E k \in ManifestCalls :
        /\ calls[k].cmds # <<>>
        /\ calls[k].resps[1].status = 401
        /\ calls[k].pc = "raised"

\* C9 as stated: every get_image_manifest call performs two round-trips, one
\* token request and then one manifest request.
C9_EveryCallTwoRoundTrips ==
    \A k \in ManifestCalls :
        /\ Len(calls[k].cmds) = 2
        /\ IsTokenRequest(calls[k].cmds[1])
        /\ IsManifestRequest(calls[k].cmds[2])

\* C9 amended: a get_image_manifest call performs at most two round-trips and
\* never repeats a request: none when the reference does not parse, the token
\* request alone when it fails, and the token request followed by the manifest
\* request otherwise, so exactly two for every call that returns a manifest.
\* Nothing is kept between calls: every call whose reference parses sends its
\* own token request, its manifest request carries the token that this
\* request was answered with, and it returns the document of its own manifest
\* response.
C9_AtMostTwoRoundTripsNoCache ==
    \A k \in ManifestCalls :
        LET requests == calls[k].cmds
            parses == parse_image_name(calls[k].args).exc = None
        IN  /\ Len(requests) <= 2
            /\ Len(calls[k].resps) = Len(requests)
            /\ (parses <=> requests # <<>>)
            /\ (requests # <<>> => IsTokenRequest(requests[1]))
            /\ (Len(requests) = 2 =>
                  /\ IsManifestRequest(requests[2])
                  /\ calls[k].resps[1].token # None
                  /\ requests[2].bearer = calls[k].resps[1].token)
            /\ (calls[k].pc = "returned" =>
                  /\ Len(requests) = 2
                  /\ calls[k].ret = Some(calls[k].resps[2].body))
            /\ (Len(requests) = 1 => calls[k].pc = "raised")

\* C9 witness: two calls for the same reference have both returned; the
\* second was given another token and another document than the first.
C9_Witness ==
    /\ Len(calls) = 2
    /\ calls[1].op = "get_image_manifest"
    /\ calls[1].args = calls[2].args
    /\ calls[1].pc = "returned"
    /\ calls[2].pc = "returned"
    /\ calls[1].resps[1].token = Some("t1")
    /\ calls[2].resps[1].token = Some("t2")
    /\ calls[2].cmds[2].bearer = Some("t2")
    /\ calls[1].ret # calls[2].ret
    /\ Len(httpLog) = 4

\* ----------------------------------------------------- claims: image_spec

ImageSpecCalls == {k \in 1..Len(calls) : calls[k].op = "image_spec"}

\* C10: image_spec returns one of the four ImageSpec values: DOCKER for a
\* docker:// uri, DOCKER_ARCHIVE for a docker-archive: uri, OTHER for a uri
\* that is no existing file, SINGULARITY for a file whose `sif header` check
\* exits 0 and OTHER for a file whose check exits non-zero; the external tool
\* is run in the last two cases only.  (Stated for calls whose check, when
\* there is one, could be launched.)
C10_ImageSpecAlwaysAVariant ==
    \A k \in ImageSpecCalls :
        LET uri == calls[k].args
            docker == Len(uri) >= 9 /\ SubSeq(uri, 1, 9) = S_docker \o <<":", "/", "/">>
            archive == Len(uri) >= 15
                       /\ SubSeq(uri, 1, 15) = S_docker \o <<"-">> \o S_archive \o <<":">>
            file == uri \in calls[k].before.files
            checked == ~docker /\ ~archive /\ file
        IN  /\ (checked <=> calls[k].cmds # <<>>)
            /\ (checked => calls[k].cmds = <<client.singularity \o <<S_sif, S_header, uri>>>>)
            /\ (~checked \/ calls[k].resps[1].launched =>
                  /\ calls[k].pc = "returned"
                  /\ calls[k].ret \in {Some("DOCKER"), Some("DOCKER_ARCHIVE"),
                                       Some("OTHER"), Some("SINGULARITY")}
                  /\ calls[k].ret =
                       (IF docker THEN Some("DOCKER")
                        ELSE IF archive THEN Some("DOCKER_ARCHIVE")
                        ELSE IF ~file THEN Some("OTHER")
                        ELSE IF calls[k].resps[1].exit_code = 0 THEN Some("SINGULARITY")
                        ELSE Some("OTHER")))

\* ---------------------------------------------- claims: supports_fakeroot

\* The promise of supports_fakeroot for a resolved version: Apptainer, or
\* Singularity at 3.5.0 or later in semantic-version order (a pre-release of
\* 3.5.0 comes before 3.5.0).
PromisedFakeroot(version) ==
    LET v == version.version
    IN  \/ version.runtime = "APPTAINER"
        \/ /\ version.runtime = "SINGULARITY"
           /\ \/ v.major > 3
              \/ v.major = 3 /\ v.minor > 5
              \/ v.major = 3 /\ v.minor = 5 /\ v.patch > 0
              \/ v.major = 3 /\ v.minor = 5 /\ v.patch = 0 /\ v.prerelease = None

\* C11: for every resolved Version, supports_fakeroot returns true exactly
\* when the runtime is Apptainer, or is Singularity with a version >= 3.5.0
\* in semantic-version order: false for (Singularity, 3.4.9) and for every
\* Unknown runtime, true for (Apptainer, 0.1.0).
C11_SupportsFakeroot ==
    \A k \in 1..Len(calls) :
        calls[k].op = "supports_fakeroot" =>
            /\ calls[k].pc = "returned"
            /\ calls[k].ret = Some(PromisedFakeroot(client.version[1]))
            /\ (client.version[1].runtime = "UNKNOWN" => calls[k].ret = Some(FALSE))
            /\ (client.version[1] =
                  [runtime |-> "SINGULARITY",
                   version |-> [major |-> 3, minor |-> 4, patch |-> 9,
                                prerelease |-> None, build |-> None]]
                  => calls[k].ret = Some(FALSE))
            /\ (client.version[1] =
                  [runtime |-> "APPTAINER",
                   version |-> [major |-> 0, minor |-> 1, patch |-> 0,
                                prerelease |-> None, build |-> None]]
                  => calls[k].ret = Some(TRUE))

\* C11 witness: supports_fakeroot has answered false for the pre-release
\* (Singularity, 3.5.0-rc1).
C11_Witness ==
    /\ calls # <<>>
    /\ calls[1].op = "supports_fakeroot"
    /\ client.version[1].runtime = "SINGULARITY"
    /\ client.version[1].version.prerelease = Some(S_rc1)
    /\ client.version[1].version.patch = 0
    /\ calls[1].ret = Some(FALSE)

\* ------------------------------------------ claims: from_version_string

ParseCalls == {k \in 1..Len(calls) : calls[k].op = "from_version_string"}

\* The semantic versions among the texts, written out field by field.
PromisedVersions ==
    {[text |-> <<"3", ".", "7", ".", "4">>,
      version |-> [major |-> 3, minor |-> 7, patch |-> 4,
                   prerelease |-> None, build |-> None]],
     [text |-> <<"1", ".", "1", ".", "0", "-", "r", "c", "1">>,
      version |-> [major |-> 1, minor |-> 1, patch |-> 0,
                   prerelease |-> Some(<<"r", "c", "1">>), build |-> None]],
     [text |-> <<"3", ".", "5", ".", "0", "+", "b", "1">>,
      version |-> [major |-> 3, minor |-> 5, patch |-> 0,
                   prerelease |-> None, build |-> Some(<<"b", "1">>)]]}

\* 3.8.0-pull/12-0a and the version 3.8.0-pull+12-0a it stands for.
LegacyText == <<"3", ".", "8", ".", "0", "-", "p", "u", "l", "l", "/", "1", "2", "-", "0", "a">>

LegacyVersion ==
    [major |-> 3, minor |-> 8, patch |-> 0, prerelease |-> Some(<<"p", "u", "l", "l">>),
     build |-> Some(<<"1", "2", "-", "0", "a">>)]

PromisedRuntime(banner) ==
    IF banner = <<>> THEN "UNKNOWN"
    ELSE IF banner[1] = "a" THEN "APPTAINER"
    ELSE "SINGULARITY"

\* C12: for every valid semantic version v the parser maps "singularity
\* version v" and "singularity-ce version v" to (Singularity, v), "apptainer
\* version v" to (Apptainer, v), the unprefixed legacy x.y.z-pull/12-0a to
\* (Singularity, x.y.z-pull+12-0a) and any other unprefixed valid version to
\* (Unknown, v), whatever white space surrounds the raw string.
C12_ParserMapsBannersToRuntimes ==
    \A k \in ParseCalls :
        LET input == calls[k].args
        IN  /\ \A p \in PromisedVersions :
                 input.text = p.text =>
                    /\ calls[k].pc = "returned"
                    /\ calls[k].ret =
                         Some([runtime |-> PromisedRuntime(input.banner),
                               version |-> p.version])
            /\ (input.banner = <<>> /\ input.text = LegacyText =>
                  /\ calls[k].pc = "returned"
                  /\ calls[k].ret =
                       Some([runtime |-> "SINGULARITY", version |-> LegacyVersion]))

\* C12 witness: " singularity-ce version 1.1.0-rc1\n" has been parsed.
C12_Witness ==
    \E k \in ParseCalls :
        /\ calls[k].args.banner = SingularityCeBanner
        /\ calls[k].args.before = SP
        /\ calls[k].args.after = <<"\n">>
        /\ calls[k].args.text = <<"1", ".", "1", ".", "0", "-", "r", "c", "1">>
        /\ calls[k].pc = "returned"

HasSlash(text) == \E i \in 1..Len(text) : text[i] = "/"

\* The text with its first "/" turned into "+".
FirstSlashToPlus(text) ==
    LET i == CHOOSE j \in 1..Len(text) :
                 text[j] = "/" /\ \A h \in 1..(j - 1) : text[h] # "/"
    IN  SubSeq(text, 1, i - 1) \o <<"+">> \o SubSeq(text, i + 1, Len(text))

\* What the parser was handed: the text of the returned version is not kept,
\* the text of a refused one is carried by the ValueError.
HandedToParser(call, text) ==
    IF call.pc = "raised"
    THEN call.exc[1].type = "ValueError" /\ call.exc[1].detail = <<text>>
    ELSE text = FirstSlashToPlus(LegacyText) /\ call.ret[1].version = LegacyVersion

\* C13 as stated: whenever the string that remains after the banner contains
\* "/", the runtime is Singularity and the first "/" is rewritten to "+"
\* before parsing, also after a recognized banner.
C13_SlashAlwaysMeansSingularity ==
    \A k \in ParseCalls :
        HasSlash(calls[k].args.text) =>
            /\ HandedToParser(calls[k], FirstSlashToPlus(calls[k].args.text))
            /\ (calls[k].pc = "returned" => calls[k].ret[1].runtime = "SINGULARITY")

\* C13 amended: when the trimmed raw string starts with none of the three
\* banners and contains "/", the runtime is Singularity and the first "/"
\* (only the first) is rewritten to "+" before parsing; after a recognized
\* banner the remainder is handed to the parser unchanged, so a remainder
\* with a "/" is refused with the parser's ValueError.
C13_SlashRewrittenOnlyWithoutBanner ==
    \A k \in ParseCalls :
        LET input == calls[k].args
        IN  HasSlash(input.text) =>
              IF input.banner = <<>>
              THEN /\ HandedToParser(calls[k], FirstSlashToPlus(input.text))
                   /\ (calls[k].pc = "returned" =>
                         calls[k].ret[1].runtime = "SINGULARITY")
                   /\ (input.text = LegacyText => calls[k].pc = "returned")
              ELSE /\ calls[k].pc = "raised"
                   /\ HandedToParser(calls[k], input.text)

\* C13 witness: "apptainer version 3.8.0-pull/12-0a" has been refused.
C13_Witness ==
    \E k \in ParseCalls :
        /\ calls[k].pc = "raised"
        /\ calls[k].args.banner = ApptainerBanner
        /\ calls[k].args.text = LegacyText

\* --------------------------------------------- claims: parse_image_name

NameCalls == {k \in 1..Len(calls) : calls[k].op = "parse_image_name"}

Count(text, c) == Cardinality({i \in 1..Len(text) : text[i] = c})

\* One ":" in the text and one "/" before it.
WellFormedReference(text) ==
    /\ Count(text, ":") = 1
    /\ Count(text, "/") = 1
    /\ \E i, j \in 1..Len(text) : text[i] = "/" /\ text[j] = ":" /\ i < j

\* C14: parse_image_name returns (namespace, repository, tag) exactly when
\* what follows the stripped "docker:" and leading slashes has one ":"
\* between path and tag and one "/" between namespace and repository; the
\* three fields it returns are then non-empty; every other name raises the
\* invalid-reference ValueError.
C14_ParsesExactlyWellFormedIntoNonEmptyFields ==
    \A k \in NameCalls :
        LET rest == calls[k].args.rest
        IN  /\ (WellFormedReference(rest) <=> calls[k].pc = "returned")
            /\ (calls[k].pc = "raised" =>
                  /\ calls[k].exc[1].type = "ValueError"
                  /\ calls[k].exc[1].function = "parse_image_name")
            /\ (calls[k].pc = "returned" =>
                  /\ Len(calls[k].ret[1]) = 3
                  /\ \A i \in 1..3 : calls[k].ret[1][i] # <<>>
                  /\ calls[k].ret[1][1] \o <<"/">> \o calls[k].ret[1][2]
                        \o <<":">> \o calls[k].ret[1][3] = rest)

\* ------------------------------------------------- claims: Client.init

InitCalls == {k \in 1..Len(calls) : calls[k].op = "init"}

\* The client as call k left it: the one the next call was made on, or the
\* present one after the last call.
ClientAfter(k) == IF k < Len(calls) THEN calls[k + 1].self ELSE client

\* C15: no build, exec or run command is handed to the shell by a client
\* whose Version is null, also after a failed init(force=true) on a client
\* that was Ready.
C15_NoBuildOrRunWithoutVersion ==
    \A k \in 1..Len(calls) :
        calls[k].op \in {"build", "run"} /\ calls[k].cmds # <<>> =>
            calls[k].self.version # None

\* C17: init without force on a client whose Version is non-null hands
\* nothing to the shell and leaves Version and the executable tokens as they
\* were; init with a null Version or with force hands `<executable...>
\* --version` to the shell exactly once; the shell sees no other command
\* from init.
C17_InitIsLazy ==
    /\ \A k \in InitCalls :
         LET self == calls[k].self
             resolves == calls[k].args.force \/ self.version = None
         IN  /\ ClientAfter(k).singularity = self.singularity
             /\ (~resolves =>
                   /\ calls[k].cmds = <<>>
                   /\ calls[k].pc = "returned"
                   /\ ClientAfter(k) = self)
             /\ (resolves =>
                   calls[k].cmds = <<self.singularity \o <<S_dashversion>>>>)
    /\ (scenario = "init" => Len(shellLog) = CommandsOfCalls(Len(calls)))

\* C17 witness: a client constructed with an explicit Version was
\* initialized without force and then with force.
C17_Witness ==
    /\ Len(calls) = 2
    /\ calls[1].op = "init" /\ ~calls[1].args.force
    /\ calls[1].self.version # None /\ calls[1].cmds = <<>>
    /\ calls[1].self.singularity = <<S_singularity>>
    /\ calls[2].op = "init" /\ calls[2].args.force
    /\ Len(shellLog) = 1

\* What init(force=true) met: a usable answer is a launched command with
\* exit code 0 whose output parses.
UsableAnswer(resp) ==
    /\ resp.launched
    /\ resp.exit_code = 0
    /\ from_version_string(resp.output).exc = None

\* C18: init(force=true) on a Ready client ends Ready with the Version
\* parsed from the newly captured output, or raises and leaves Version null;
\* after a failed forced init the previous Version is gone.
C18_ForcedInitReadyOrFailed ==
    \A k \in InitCalls :
        calls[k].args.force /\ calls[k].self.version # None =>
            LET resp == calls[k].resps[1]
            IN  IF UsableAnswer(resp)
                THEN /\ calls[k].pc = "returned"
                     /\ calls[k].exc = None
                     /\ ClientAfter(k).version = from_version_string(resp.output).value
                     /\ ClientAfter(k).version # None
                ELSE /\ calls[k].pc = "raised"
                     /\ calls[k].exc # None
                     /\ ClientAfter(k).version = None

\* C18 witness: a forced init of a Ready client met output that is no
\* version and another met a banner of the other runtime.
C18_Witness ==
    /\ Len(calls) = 2
    /\ calls[1].op = "init" /\ calls[1].args.force
    /\ calls[1].self.version # None
    /\ calls[1].self.version[1].runtime = "SINGULARITY"
    /\ calls[1].pc = "returned"
    /\ calls[2].self.version[1].runtime = "APPTAINER"
    /\ calls[2].op = "init" /\ calls[2].args.force
    /\ calls[2].resps = <<Response(TRUE, 0, S_37)>>
    /\ calls[2].pc = "raised"
    /\ client.version = None

\* ------------------------------------------ claims: concurrent builds

\* The recipe of call k passes the check of build: a docker reference, or a
\* file under build_dir.
RecipeValid(k) ==
    \/ IsPromisedDockerRecipe(calls[k].args.recipe)
    \/ PathJoin(calls[k].args.build_dir, calls[k].args.recipe) \in calls[k].before.files

\* C16: build takes no lock on the target: every finished call that found
\* the target absent when it started, with a valid recipe, has handed its
\* build command for that target to the shell, whatever the other callers
\* did meanwhile; so two concurrent calls for one absent target can both
\* find it absent and both run the build command.
C16_NoMutualExclusion ==
    \A k \in BuildCalls :
        /\ ~Active(calls[k])
        /\ ImageFile(calls[k].args) \notin calls[k].before.files
        /\ RecipeValid(k)
        => /\ Len(calls[k].cmds) = 1
           /\ calls[k].cmds[1][Len(calls[k].cmds[1]) - 1] = ImageFile(calls[k].args)

\* C16 witness: two calls for one target both found it absent and both ran
\* the build command with success, which callers coming one after the other
\* cannot do.
C16_Witness ==
    /\ scenario = "concurrent_build"
    /\ Len(calls) = 2
    /\ ImageFile(calls[1].args) = ImageFile(calls[2].args)
    /\ \A k \in 1..2 :
         /\ calls[k].op = "build"
         /\ ImageFile(calls[k].args) \notin calls[k].before.files
         /\ calls[k].pc = "returned"
         /\ Len(calls[k].cmds) = 1
         /\ calls[k].resps = <<Response(TRUE, 0, <<>>)>>
    /\ Len(shellLog) = 2

\* --------------------------------------------------- claims: Client.run

RunCalls == {k \in 1..Len(calls) : calls[k].op = "run"}

\* The words of a list written one after the other with one space between.
RECURSIVE JoinedBySpaces(_)
JoinedBySpaces(words) ==
    IF words = <<>> THEN <<>>
    ELSE IF Len(words) = 1 THEN words[1]
    ELSE words[1] \o <<" ">> \o JoinedBySpaces(Tail(words))

\* <executable...> exec <runArgs> <volumes> <imageFile> <entrypoint> <args>
ExecShape(self, args) ==
    self.singularity
        \o <<<<"e", "x", "e", "c">>, args.run_args, args.volumes, args.image_file,
             args.entrypoint[1], JoinedBySpaces(args.args)>>

\* <executable...> run <runArgs> <volumes> <imageFile> <args>
RunShape(self, args) ==
    self.singularity
        \o <<<<"r", "u", "n">>, args.run_args, args.volumes, args.image_file,
             JoinedBySpaces(args.args)>>

\* C19 as stated: run issues the exec shape for every provided entrypoint,
\* the empty string included, and the run shape only when the entrypoint is
\* None.
C19_ExecForEveryProvidedEntrypoint ==
    \A k \in RunCalls :
        calls[k].cmds =
            <<IF calls[k].args.entrypoint # None
              THEN ExecShape(calls[k].self, calls[k].args)
              ELSE RunShape(calls[k].self, calls[k].args)>>

\* C19, amended: run issues the exec shape for every non-empty entrypoint
\* and the run shape when the entrypoint is None or the empty string; the
\* executable tokens come first, in their stored order.
C19_ExecForNonEmptyEntrypoint ==
    \A k \in RunCalls :
        calls[k].cmds =
            <<IF calls[k].args.entrypoint \notin {None, Some(<<>>)}
              THEN ExecShape(calls[k].self, calls[k].args)
              ELSE RunShape(calls[k].self, calls[k].args)>>

\* C19 witness: `sudo apptainer` was asked to run with the empty entrypoint
\* and two arguments, and then with the entrypoint e.
C19_Witness ==
    /\ scenario = "run"
    /\ Len(calls) = 2
    /\ calls[1].self.singularity = <<S_sudo, S_apptainer>>
    /\ calls[1].args.entrypoint = Some(<<>>)
    /\ Len(calls[1].args.args) = 2
    /\ calls[1].cmds[1][3] = S_run
    /\ calls[2].args.entrypoint = Some(<<"e">>)
    /\ calls[2].cmds[1][3] = S_exec

\* ------------------------------------ claims: what a failed build leaves

\* Call k found no target when it started, so it went past the no-op return.
WentPastNoOp(k) ==
    ImageFile(calls[k].args) \notin calls[k].before.files \cup calls[k].before.dirs

====
